---- MODULE Spec2Model ----
(***************************************************************************)
(* A model of the FTP server lnsp/ftpd: the control-connection dispatcher  *)
(* (pkg/ftp/handler), the TCP connection with its data tasks (pkg/ftp/tcp),*)
(* the session context and path resolver (pkg/ftp) and the authorization   *)
(* model (pkg/ftp/config).                                                 *)
(*                                                                         *)
(* A Go string is a sequence of atoms.  An atom is a run of characters     *)
(* that the program never looks inside, except for the separators " "      *)
(* and "/" (atoms of their own) and for the question whether it holds two  *)
(* consecutive dots (DotDotAtoms).  The empty string is <<>>.              *)
(***************************************************************************)
EXTENDS Integers, Sequences, FiniteSets, TLC

(***************************************************************************)
(* Bounds of the model.                                                    *)
(***************************************************************************)
\* longest current directory (in path elements) a CWD may produce
MaxDepth == 3
\* number of PASV/PORT commands (each starts a data task) the peer sends in
\* one session
MaxTasks == 1
\* longest path argument (in path elements) of the path-resolver probe
MaxArgLen == 2
\* number of PASV/PORT commands of a session that only moves data
MaxTransferTasks == 3
\* number of PASV/PORT commands of that session in the runs checked for
\* progress
MaxFairTasks == 2
\* longest password and longest hashed password of the Auth probe
MaxPasswordLen == 2

(***************************************************************************)
(* package strings                                                         *)
(***************************************************************************)
Str(a) == <<a>>

RECURSIVE TrimLeft(_)
TrimLeft(s) == IF s # <<>> /\ Head(s) = " " THEN TrimLeft(Tail(s)) ELSE s

RECURSIVE TrimRight(_)
TrimRight(s) ==
    IF s # <<>> /\ s[Len(s)] = " " THEN TrimRight(SubSeq(s, 1, Len(s) - 1)) ELSE s

TrimSpace(s) == TrimRight(TrimLeft(s))

\* strings.Split(s, sep) for a non-empty sep: one token more than there are
\* separators, so never fewer than one token
RECURSIVE Split(_, _)
Split(s, sep) ==
    IF \A i \in 1..Len(s) : s[i] # sep
    THEN <<s>>
    ELSE LET i == CHOOSE k \in 1..Len(s) : s[k] = sep /\ \A j \in 1..(k - 1) : s[j] # sep
         IN  <<SubSeq(s, 1, i - 1)>> \o Split(SubSeq(s, i + 1, Len(s)), sep)

RECURSIVE Join(_, _)
Join(toks, sep) ==
    IF toks = <<>> THEN <<>>
    ELSE IF Len(toks) = 1 THEN toks[1]
    ELSE toks[1] \o <<sep>> \o Join(Tail(toks), sep)

\* the atoms with a lower-case letter that the model sends
ToUpperAtom(a) ==
    CASE a = "user" -> "USER"
      [] a = "quit" -> "QUIT"
      [] OTHER -> a

ToUpper(s) == [i \in 1..Len(s) |-> ToUpperAtom(s[i])]

\* the atoms that hold two consecutive dots
DotDotAtoms == {"..", "x..y"}

\* a resolver that forgot to look for ".." in the relative path
ContainsDotDotNever(s) == FALSE

\* strings.Contains(s, ".."): separators hold no dot, so two consecutive dots
\* lie inside one atom
ContainsDotDot(s) == \E i \in 1..Len(s) : s[i] \in DotDotAtoms

(***************************************************************************)
(* package path/filepath (Unix)                                            *)
(***************************************************************************)
IsAbs(p) == p # <<>> /\ p[1] = "/"

RECURSIVE CleanElems(_, _, _)
CleanElems(rooted, out, in) ==
    IF in = <<>> THEN out
    ELSE LET e == Head(in) IN
         IF e = <<>> \/ e = <<".">> THEN CleanElems(rooted, out, Tail(in))
         ELSE IF e = <<"..">>
              THEN IF out # <<>> /\ out[Len(out)] # <<"..">>
                   THEN CleanElems(rooted, SubSeq(out, 1, Len(out) - 1), Tail(in))
                   ELSE IF rooted THEN CleanElems(rooted, out, Tail(in))
                   ELSE CleanElems(rooted, Append(out, e), Tail(in))
              ELSE CleanElems(rooted, Append(out, e), Tail(in))

Clean(p) ==
    LET rooted == IsAbs(p)
        out == CleanElems(rooted, <<>>, Split(p, "/"))
    IN  IF rooted THEN <<"/">> \o Join(out, "/")
        ELSE IF out = <<>> THEN <<".">>
        ELSE Join(out, "/")

\* filepath.Join of two elements
filepathJoin(a, b) ==
    IF a = <<>> /\ b = <<>> THEN <<>>
    ELSE IF a = <<>> THEN Clean(b)
    ELSE IF b = <<>> THEN Clean(a)
    ELSE Clean(a \o <<"/">> \o b)

\* the working directory of the server process
Getwd == <<"/">>

Abs(p) == IF IsAbs(p) THEN Clean(p) ELSE filepathJoin(Getwd, p)

\* the elements of a cleaned path
Elems(p) == SelectSeq(Split(p, "/"), LAMBDA t : t # <<>>)

RECURSIVE CommonPrefix(_, _)
CommonPrefix(be, te) ==
    IF be = <<>> \/ te = <<>> \/ Head(be) # Head(te) THEN 0
    ELSE 1 + CommonPrefix(Tail(be), Tail(te))

Rel(basepath, targpath) ==
    LET base0 == Clean(basepath)
        targ == Clean(targpath)
    IN  IF targ = base0 THEN [err |-> FALSE, rel |-> <<".">>]
        ELSE
        LET base == IF base0 = <<".">> THEN <<>> ELSE base0
            baseSlashed == IsAbs(base)
            targSlashed == IsAbs(targ)
            be == Elems(base)
            te == Elems(targ)
            k == CommonPrefix(be, te)
            ups == [i \in 1..(Len(be) - k) |-> <<"..">>]
        IN  IF baseSlashed # targSlashed THEN [err |-> TRUE, rel |-> <<>>]
            ELSE IF k < Len(be) /\ be[k + 1] = <<"..">> THEN [err |-> TRUE, rel |-> <<>>]
            ELSE [err |-> FALSE, rel |-> Join(ups \o SubSeq(te, k + 1, Len(te)), "/")]

(***************************************************************************)
(* package ftp: status codes and command verbs                             *)
(***************************************************************************)
StatusTransferReady == 125
StatusOK == 200
StatusFileInfo == 213
StatusSystemType == 215
StatusServiceReady == 220
StatusTransferDone == 226
StatusPassiveMode == 227
StatusAuthenticated == 230
StatusWorkingDirectory == 257
StatusNeedPassword == 331
StatusNeedAccount == 332
StatusTransferAbort == 426
StatusActionNotTaken == 450
StatusLocalError == 451
StatusSyntaxError == 500
StatusSyntaxParamError == 501
StatusNotImplemented == 502
StatusNotLoggedIn == 530

CommandQuit == <<"QUIT">>
CommandUser == <<"USER">>
CommandPassword == <<"PASS">>
CommandSystemType == <<"SYST">>
CommandPrintDirectory == <<"PWD">>
CommandChangeDirectory == <<"CWD">>
CommandModificationTime == <<"MDTM">>
CommandFileSize == <<"SIZE">>
CommandStoreFile == <<"STOR">>
CommandRetrieveFile == <<"RETR">>
CommandDataType == <<"TYPE">>
CommandPassiveMode == <<"PASV">>
CommandPort == <<"PORT">>
CommandListRaw == <<"NLST">>
CommandList == <<"LIST">>

(***************************************************************************)
(* package config: the authorization model                                 *)
(***************************************************************************)
\* bcrypt: the hash of a password, and the comparison (TRUE: no error)
GenerateFromPassword(password) == <<"$2a$">> \o password

\* a comparison that reports no error for any hash
CompareAlwaysMatches(hash, password) == TRUE

CompareHashAndPassword(hash, password) == hash = GenerateFromPassword(password)

\* the users and groups of the YAML file the server was started with
Users ==
    (Str("alice") :> [kind |-> "yaml", Home |-> <<"/", "h", "/", "a">>,
                      Hash |-> GenerateFromPassword(Str("s")), RawPassword |-> <<>>,
                      UserGroup |-> Str("guest")])
    @@ (Str("bob") :> [kind |-> "yaml", Home |-> <<"/", "h", "/", "b">>,
                       Hash |-> <<>>, RawPassword |-> <<>>,
                       UserGroup |-> Str("admin")])
    @@ (Str("carol") :> [kind |-> "yaml", Home |-> <<"/", "h", "/", "b">>,
                         Hash |-> <<>>, RawPassword |-> <<>>,
                         UserGroup |-> Str("staff")])

Groups ==
    (Str("guest") :> [kind |-> "yaml", CreateFlags |-> <<>>,
                      HandleFlags |-> <<"file", "dir">>, DeleteFlags |-> <<>>])
    @@ (Str("admin") :> [kind |-> "yaml", CreateFlags |-> <<"file", "dir">>,
                         HandleFlags |-> <<"file", "dir">>,
                         DeleteFlags |-> <<"file", "dir">>])

\* the nil interface value returned by a failed lookup
NilUser == [kind |-> "nil", Home |-> <<>>, Hash |-> <<>>, RawPassword |-> <<>>,
            UserGroup |-> <<>>]

NilGroup == [kind |-> "nil", CreateFlags |-> <<>>, HandleFlags |-> <<>>,
             DeleteFlags |-> <<>>]

\* cmd/ftpd: config.NewDefaultConfig("/")
defaultUserConfiguration ==
    [kind |-> "default", Home |-> <<"/">>, Hash |-> <<>>, RawPassword |-> <<>>,
     UserGroup |-> <<>>]

defaultGroup == [kind |-> "default", CreateFlags |-> <<>>, HandleFlags |-> <<>>,
                 DeleteFlags |-> <<>>]

FindUser(config, name) ==
    IF config = "default" THEN defaultUserConfiguration
    ELSE IF name \in DOMAIN Users THEN Users[name]
    ELSE NilUser

FindGroup(config, name) ==
    IF config = "default" THEN defaultGroup
    ELSE IF name \in DOMAIN Groups THEN Groups[name]
    ELSE NilGroup

HomeDir(user) == user.Home

\* a password check that skips the comparison with the stored hash
AuthAnyPassword(user, password) == TRUE

\* a default configuration that wants the password "s"
AuthDefaultChecks(user, password) ==
    IF user.kind = "default" THEN password = <<"s">>
    ELSE IF user.Hash = <<>> /\ user.RawPassword = <<>> THEN TRUE
    ELSE CompareHashAndPassword(user.Hash, password)

Auth(user, password) ==
    IF user.kind = "default" THEN TRUE
    ELSE IF user.Hash = <<>> /\ user.RawPassword = <<>> THEN TRUE
    ELSE CompareHashAndPassword(user.Hash, password)

Group(user) ==
    IF user.kind = "default" THEN defaultGroup
    ELSE FindGroup("yaml", user.UserGroup)

\* a flag test that looks at the first flag of the list only
HasFlagFirst(flags, key) == flags # <<>> /\ flags[1] = key

HasFlag(flags, key) == \E i \in 1..Len(flags) : flags[i] = key

CanCreateFile(group, path) ==
    IF group.kind = "default" THEN TRUE ELSE HasFlag(group.CreateFlags, "file")

CanListDir(group, path) ==
    IF group.kind = "default" THEN TRUE ELSE HasFlag(group.HandleFlags, "dir")

CanCreateDir(group, path) ==
    IF group.kind = "default" THEN TRUE ELSE HasFlag(group.CreateFlags, "dir")

CanEditFile(group, path) ==
    IF group.kind = "default" THEN TRUE ELSE HasFlag(group.HandleFlags, "file")

CanDeleteFile(group, path) ==
    IF group.kind = "default" THEN TRUE ELSE HasFlag(group.DeleteFlags, "file")

CanDeleteDir(group, path) ==
    IF group.kind = "default" THEN TRUE ELSE HasFlag(group.DeleteFlags, "dir")

(***************************************************************************)
(* The state of one session.                                               *)
(***************************************************************************)
VARIABLES
    config,        \* Handler.UserConfig: "default" or "yaml" (cmd/ftpd main)
    User,          \* ContextualConn.User, the authenticated user ("" = none)
    Dir,           \* ContextualConn.Dir, the current directory
    TransferType,  \* ContextualConn.TransferType
    selectedUser,  \* HandlerState.selectedUser, the pending name
    keepAlive,     \* HandlerState.keepAlive
    pc,            \* where the control loop of Handler.Handle stands
    cmdName,       \* the upper-cased verb of the command being handled
    cmdData,       \* its argument
    resp,          \* the status codes passed to Respond for that command
    wrote,         \* whether that command has called ioutil.WriteFile
    gen,           \* the identity of the channels mode/data/status (Reset)
    tasks,         \* the data tasks (goroutines of SetPassive/SetActive)
    backend,       \* the control connection: "open", "closed", or "broken"
                   \* (writes fail, the lines already buffered are read)
    probe          \* the last call of a pure function and its result

vars == <<config, User, Dir, TransferType, selectedUser, keepAlive, pc, cmdName,
          cmdData, resp, wrote, gen, tasks, backend, probe>>

session == <<User, Dir, TransferType, selectedUser, keepAlive>>
transfer == <<gen, tasks, backend>>

NoProbe == [op |-> "none", arg |-> <<>>, out |-> [path |-> <<>>, ok |-> FALSE]]

defaultTransferType == <<"A", "N">>

\* ConnectionFactory.Accept followed by the first lines of Handler.Handle
\* (the HandlerState and the 220 greeting)
Init ==
    /\ config \in {"default", "yaml"}
    /\ User = <<>>
    /\ Dir = <<"/", "tmp">>
    /\ TransferType = defaultTransferType
    /\ selectedUser = <<>>
    /\ keepAlive = TRUE
    /\ pc = "read"
    /\ cmdName = <<>>
    /\ cmdData = <<>>
    /\ resp = <<StatusServiceReady>>
    /\ wrote = FALSE
    /\ gen = 0
    /\ tasks = <<>>
    /\ backend = "open"
    /\ probe = NoProbe

\* a resolver that measures against the home of the pending name
GetRelativePathOfSelected(p2) ==
    LET p0 == IF IsAbs(p2) THEN p2 ELSE filepathJoin(Dir, p2)
        p1 == Abs(p0)
        r == Rel(HomeDir(FindUser(config, selectedUser)), p1)
    IN  IF r.err THEN [path |-> Dir, ok |-> FALSE]
        ELSE IF ContainsDotDot(r.rel) THEN [path |-> Dir, ok |-> FALSE]
        ELSE [path |-> p1, ok |-> TRUE]

(***************************************************************************)
(* ContextualConn.GetRelativePath                                          *)
(***************************************************************************)
GetRelativePath(p2) ==
    LET p0 == IF IsAbs(p2) THEN p2 ELSE filepathJoin(Dir, p2)
        p1 == Abs(p0)
        r == Rel(HomeDir(FindUser(config, User)), p1)
    IN  IF r.err THEN [path |-> Dir, ok |-> FALSE]
        ELSE IF ContainsDotDot(r.rel) THEN [path |-> Dir, ok |-> FALSE]
        ELSE [path |-> p1, ok |-> TRUE]

(***************************************************************************)
(* The command lines the peer sends.                                       *)
(***************************************************************************)
NameArgs == {Str("alice"), Str("bob"), Str("eve")}
PasswordArgs == {Str("s"), Str("x")}
DirArgs == {Str("a"), Str(".."), <<"/", "h", "/", "a">>,
            <<"/", "h", "/", "b", "/", "a">>, Str("x..y")}
FileArgs == {Str("f"), <<"..", "/", "f">>}
TypeArgs == {Str("I"), Str("X")}
HostArgs == {<<"10", ",", "0", ",", "0", ",", "1", ",", "8", ",", "77">>,
             <<"10", ",", "0", ",", "0", ",", "1">>}

Arg(verb, args) == {<<verb, " ">> \o a : a \in args}

Lines ==
    {<<>>, <<" ">>, <<" ", "QUIT", " ">>, <<"user", " ", "bob">>}
    \cup Arg("USER", NameArgs) \cup Arg("PASS", PasswordArgs) \cup {Str("PASS")}
    \cup Arg("CWD", DirArgs) \cup Arg("TYPE", TypeArgs) \cup {Str("TYPE")}
    \cup Arg("MDTM", FileArgs) \cup Arg("SIZE", FileArgs)
    \cup Arg("RETR", FileArgs) \cup Arg("STOR", FileArgs)
    \cup Arg("PORT", HostArgs)
    \cup {Str(v) : v \in {"SYST", "PWD", "PASV", "NLST", "LIST", "QUIT", "NOOP"}}

(***************************************************************************)
(* Handler.Handle: one turn of the loop up to the call of the handler      *)
(***************************************************************************)
\* Conn.ReadCommand without a read error
ReadCommand(line) == TrimSpace(line)

\* the lines of Handle that split the request into cmdName and cmdData
Parse(line) ==
    LET cmdTokens == Split(ReadCommand(line), " ")
    IN  [tokens |-> Len(cmdTokens),
         name |-> ToUpper(cmdTokens[1]),
         data |-> Join(Tail(cmdTokens), " ")]

\* under the default configuration every name finds the same user and every
\* directory lies under its home "/": one name and two directories suffice
DefaultLines ==
    Lines \ ({<<"user", " ", "bob">>} \cup Arg("USER", NameArgs \ {Str("alice")})
             \cup Arg("CWD", DirArgs \ {Str("a"), Str("..")}))

YamlRequests == {Parse(line) : line \in Lines}
DefaultRequests == {Parse(line) : line \in DefaultLines}

\* the requests the peer of this server sends
Requests == IF config = "yaml" THEN YamlRequests ELSE DefaultRequests

cmdHandlers ==
    {CommandUser, CommandPassword, CommandSystemType, CommandPrintDirectory,
     CommandChangeDirectory, CommandDataType, CommandModificationTime,
     CommandFileSize, CommandRetrieveFile, CommandStoreFile, CommandPassiveMode,
     CommandPort, CommandListRaw, CommandList, CommandQuit}

\* a login gate that looks at the pending name instead of the user
RouteGateOnSelected(req) ==
    IF req.tokens < 1 THEN <<"500">>
    ELSE IF selectedUser = <<>> /\ req.name # CommandUser /\ req.name # CommandPassword
         THEN <<"332">>
    ELSE IF req.name \notin cmdHandlers THEN <<"502">>
    ELSE req.name

\* a loop that answers an unknown verb with the syntax error
RouteUnknownAsSyntax(req) ==
    IF req.tokens < 1 THEN <<"500">>
    ELSE IF User = <<>> /\ req.name # CommandUser /\ req.name # CommandPassword
         THEN <<"332">>
    ELSE IF req.name \notin cmdHandlers THEN <<"500">>
    ELSE req.name

\* what the loop does with a request: a response code of its own, or the verb
\* whose handler it calls
Route(req) ==
    IF req.tokens < 1 THEN <<"500">>
    ELSE IF User = <<>> /\ req.name # CommandUser /\ req.name # CommandPassword
         THEN <<"332">>
    ELSE IF req.name \notin cmdHandlers THEN <<"502">>
    ELSE req.name

\* the loop has read a request and is about to act on it
Reads(req) ==
    /\ pc = "read"
    /\ keepAlive
    /\ backend \in {"open", "broken"}

\* the command returns to the loop after the responses codes
Returns(req, codes) ==
    /\ pc' = "read"
    /\ cmdName' = req.name
    /\ cmdData' = req.data
    /\ resp' = codes
    /\ probe' = probe

\* the handler is in time.Sleep(badLoginDelay), nothing responded yet
Sleeps(req) ==
    /\ pc' = "sleep"
    /\ cmdName' = req.name
    /\ cmdData' = req.data
    /\ resp' = <<>>
    /\ probe' = probe

\* a nil dereference or an index out of range: the server process dies
Panics(req) ==
    /\ pc' = "panic"
    /\ cmdName' = req.name
    /\ cmdData' = req.data
    /\ resp' = <<>>
    /\ probe' = probe
    /\ UNCHANGED <<config, session, wrote, transfer>>

\* ReadCommand returns an error (the peer closed the connection): Handle
\* returns and its deferred conn.Close() runs
ReadError ==
    /\ pc = "read"
    /\ pc' = "closed"
    /\ backend' = "closed"
    /\ UNCHANGED <<config, session, cmdName, cmdData, resp, wrote, gen, tasks, probe>>

\* the responses the loop gives itself: syntax error, the login gate, and
\* the unknown verb
HandleReject(req) ==
    /\ Reads(req)
    /\ Route(req) \in {<<"500">>, <<"332">>, <<"502">>}
    /\ Returns(req, IF Route(req) = <<"500">> THEN <<StatusSyntaxError>>
                     ELSE IF Route(req) = <<"332">> THEN <<StatusNeedAccount>>
                     ELSE <<StatusNotImplemented>>)
    /\ wrote' = FALSE
    /\ UNCHANGED <<config, session, transfer>>

(***************************************************************************)
(* The command handlers                                                    *)
(***************************************************************************)
handleCommandUser(req) ==
    /\ Reads(req)
    /\ Route(req) = CommandUser
    /\ IF FindUser(config, req.data).kind # "nil"
       THEN /\ selectedUser' = req.data
            /\ Returns(req, <<StatusNeedPassword>>)
       ELSE /\ selectedUser' = selectedUser
            /\ Returns(req, <<StatusNotLoggedIn>>)
    /\ wrote' = FALSE
    /\ UNCHANGED <<config, User, Dir, TransferType, keepAlive, transfer>>

handleCommandPassword(req) ==
    /\ Reads(req)
    /\ Route(req) = CommandPassword
    /\ LET user == FindUser(config, selectedUser) IN
       IF user.kind # "nil"
       THEN IF Auth(user, req.data)
            THEN /\ User' = selectedUser
                 /\ Dir' = HomeDir(user)
                 /\ Returns(req, <<StatusAuthenticated>>)
            ELSE /\ UNCHANGED <<User, Dir>>
                 /\ Sleeps(req)
       ELSE /\ UNCHANGED <<User, Dir>>
            /\ Returns(req, <<StatusNeedAccount>>)
    /\ wrote' = FALSE
    /\ UNCHANGED <<config, TransferType, selectedUser, keepAlive, transfer>>

\* time.Sleep(badLoginDelay) returns; handleCommandPassword responds 530
BadLoginDelay ==
    /\ pc = "sleep"
    /\ pc' = "read"
    /\ resp' = Append(resp, StatusNotLoggedIn)
    /\ UNCHANGED <<config, session, cmdName, cmdData, wrote, transfer, probe>>

handleCommandSystemType(req) ==
    /\ Reads(req)
    /\ Route(req) = CommandSystemType
    /\ Returns(req, <<StatusSystemType>>)
    /\ wrote' = FALSE
    /\ UNCHANGED <<config, session, transfer>>

handleCommandPrintDirectory(req) ==
    /\ Reads(req)
    /\ Route(req) = CommandPrintDirectory
    /\ LET user == FindUser(config, selectedUser) IN
       IF user.kind = "nil" \/ Group(user).kind = "nil"
       THEN Panics(req)
       ELSE /\ Returns(req, IF ~CanListDir(Group(user), Dir)
                             THEN <<StatusActionNotTaken>>
                             ELSE <<StatusWorkingDirectory>>)
            /\ wrote' = FALSE
            /\ UNCHANGED <<config, session, transfer>>

handleCommandChangeDirectory(req) ==
    /\ Reads(req)
    /\ Route(req) = CommandChangeDirectory
    /\ LET r == GetRelativePath(req.data) IN
       IF ~r.ok
       THEN /\ Dir' = Dir
            /\ Returns(req, <<StatusActionNotTaken>>)
       ELSE /\ Len(Elems(r.path)) <= MaxDepth
            /\ Dir' = r.path
            /\ Returns(req, <<StatusWorkingDirectory>>)
    /\ wrote' = FALSE
    /\ UNCHANGED <<config, User, TransferType, selectedUser, keepAlive, transfer>>

handleCommandQuit(req) ==
    /\ Reads(req)
    /\ Route(req) = CommandQuit
    /\ Returns(req, <<StatusOK>>)
    /\ wrote' = FALSE
    /\ UNCHANGED <<config, session, transfer>>

\* the table transferTypes
transferTypes == {"A", "E", "I", "L", "N", "T", "C"}

\* encodeTransferType: "PANIC" for the index out of range of modeRunes[0],
\* "INVALID" for an unknown letter, else "VALID" (the description)
encodeTransferType(tt) ==
    IF Len(tt) = 0 THEN "PANIC"
    ELSE IF tt[1] \notin transferTypes THEN "INVALID"
    ELSE IF Len(tt) = 2 /\ tt[2] \notin transferTypes THEN "INVALID"
    ELSE "VALID"

handleCommandDataType(req) ==
    /\ Reads(req)
    /\ Route(req) = CommandDataType
    /\ LET encodedType == encodeTransferType(req.data) IN
       IF encodedType = "PANIC" THEN Panics(req)
       ELSE /\ IF encodedType = "INVALID"
               THEN /\ TransferType' = TransferType
                    /\ Returns(req, <<StatusSyntaxParamError>>)
               ELSE /\ TransferType' = req.data
                    /\ Returns(req, <<StatusOK>>)
            /\ wrote' = FALSE
            /\ UNCHANGED <<config, User, Dir, selectedUser, keepAlive, transfer>>

\* os.Stat of the resolved path succeeds or fails
handleCommandModificationTime(req) ==
    /\ Reads(req)
    /\ Route(req) = CommandModificationTime
    /\ \E statOk \in BOOLEAN :
          Returns(req, IF ~GetRelativePath(req.data).ok \/ ~statOk
                        THEN <<StatusActionNotTaken>>
                        ELSE <<StatusFileInfo>>)
    /\ wrote' = FALSE
    /\ UNCHANGED <<config, session, transfer>>

handleCommandFileSize(req) ==
    /\ Reads(req)
    /\ Route(req) = CommandFileSize
    /\ \E statOk \in BOOLEAN :
          Returns(req, IF ~GetRelativePath(req.data).ok \/ ~statOk
                        THEN <<StatusActionNotTaken>>
                        ELSE <<StatusFileInfo>>)
    /\ wrote' = FALSE
    /\ UNCHANGED <<config, session, transfer>>

(***************************************************************************)
(* package tcp: the rendezvous of the control loop with a data task        *)
(***************************************************************************)
\* Conn.Reset: three fresh channels
Reset(g) == g + 1

\* Conn.Send and Conn.Receive up to their first channel operation: the 125
\* response, then the loop blocks on conn.mode
StartsTransfer(req) ==
    /\ pc' = "mode"
    /\ cmdName' = req.name
    /\ cmdData' = req.data
    /\ resp' = <<StatusTransferReady>>
    /\ probe' = probe

\* ioutil.ReadFile of the resolved path succeeds or fails
handleCommandRetrieveFile(req) ==
    /\ Reads(req)
    /\ Route(req) = CommandRetrieveFile
    /\ \E readOk \in BOOLEAN :
          IF ~GetRelativePath(req.data).ok \/ ~readOk
          THEN Returns(req, <<StatusActionNotTaken>>)
          ELSE StartsTransfer(req)
    /\ wrote' = FALSE
    /\ UNCHANGED <<config, session, transfer>>

handleCommandStoreFile(req) ==
    /\ Reads(req)
    /\ Route(req) = CommandStoreFile
    /\ LET r == GetRelativePath(req.data)
           user == FindUser(config, selectedUser)
       IN  IF ~r.ok
           THEN /\ Returns(req, <<StatusActionNotTaken>>)
                /\ wrote' = FALSE
                /\ UNCHANGED <<config, session, transfer>>
           ELSE IF user.kind = "nil" \/ Group(user).kind = "nil"
           THEN Panics(req)
           ELSE /\ IF ~CanCreateFile(Group(user), r.path)
                   THEN Returns(req, <<StatusActionNotTaken>>)
                   ELSE StartsTransfer(req)
                /\ wrote' = FALSE
                /\ UNCHANGED <<config, session, transfer>>

\* a data task: kind "pasv" or "port"; pc its position; ch the identity of
\* the channel it is blocked on; mode the direction it received; err the
\* error it met; cmd the command whose direction it received: none yet, the
\* one the control loop is in ("cur"), or one that has returned ("old")
NewTask(kind) ==
    [kind |-> kind, pc |-> "start", ch |-> 0, mode |-> "none", err |-> "nil",
     cmd |-> "none"]

\* the first half of the handler: Reset, SetPassive, and the select of
\* GetPassivePort
handleCommandPassiveMode(req) ==
    /\ Reads(req)
    /\ Route(req) = CommandPassiveMode
    /\ gen' = Reset(gen)
    /\ tasks' = Append(tasks, NewTask("pasv"))
    /\ pc' = "port"
    /\ cmdName' = req.name
    /\ cmdData' = req.data
    /\ resp' = <<>>
    /\ wrote' = FALSE
    /\ UNCHANGED <<config, session, backend, probe>>

\* a select without the time.After case: it waits for the port alone
GetPassivePortBlocking ==
    /\ FALSE
    /\ UNCHANGED vars

\* Conn.GetPassivePort: Accept never makes the channel passivePort, and a
\* receive from a nil channel never proceeds; the select takes its timeout.
\* Then the second half of handleCommandPassiveMode.
GetPassivePort ==
    /\ pc = "port"
    /\ gen' = Reset(gen)
    /\ resp' = Append(resp, StatusActionNotTaken)
    /\ pc' = "read"
    /\ UNCHANGED <<config, session, cmdName, cmdData, wrote, tasks, backend, probe>>

\* ParseHost indexes tokens[:4], tokens[4] and tokens[5]
ParseHostPanics(ports) == Len(Split(ports, ",")) < 6

handleCommandPort(req) ==
    /\ Reads(req)
    /\ Route(req) = CommandPort
    /\ IF ParseHostPanics(req.data) THEN Panics(req)
       ELSE /\ gen' = Reset(gen)
            /\ tasks' = Append(tasks, NewTask("port"))
            /\ Returns(req, <<StatusOK>>)
            /\ wrote' = FALSE
            /\ UNCHANGED <<config, session, backend>>

\* /bin/ls -1 succeeds or fails
handleCommandListRaw(req) ==
    /\ Reads(req)
    /\ Route(req) = CommandListRaw
    /\ LET user == FindUser(config, selectedUser) IN
       IF user.kind = "nil" \/ Group(user).kind = "nil"
       THEN Panics(req)
       ELSE /\ \E lsOk \in BOOLEAN :
                  IF ~CanListDir(Group(user), Dir)
                  THEN Returns(req, <<StatusActionNotTaken>>)
                  ELSE IF ~lsOk THEN Returns(req, <<StatusLocalError>>)
                  ELSE StartsTransfer(req)
            /\ wrote' = FALSE
            /\ UNCHANGED <<config, session, transfer>>

\* buildEPLFListing or /bin/ls -l succeeds or fails
handleCommandList(req) ==
    /\ Reads(req)
    /\ Route(req) = CommandList
    /\ LET user == FindUser(config, selectedUser) IN
       IF user.kind = "nil" \/ Group(user).kind = "nil"
       THEN Panics(req)
       ELSE /\ \E lsOk \in BOOLEAN :
                  IF ~CanListDir(Group(user), Dir)
                  THEN Returns(req, <<StatusActionNotTaken>>)
                  ELSE IF ~lsOk THEN Returns(req, <<StatusLocalError>>)
                  ELSE StartsTransfer(req)
            /\ wrote' = FALSE
            /\ UNCHANGED <<config, session, transfer>>

(***************************************************************************)
(* The data tasks                                                          *)
(***************************************************************************)
Upload == cmdName = CommandStoreFile

\* the goroutine of SetPassive: net.Listen fails and the task sends the
\* error on conn.status, or it succeeds and the task sends the port on the
\* nil channel passivePort, where it stays
PassiveListen(i) ==
    /\ pc # "panic"
    /\ i \in 1..Len(tasks)
    /\ tasks[i].kind = "pasv"
    /\ tasks[i].pc = "start"
    /\ \E listenOk \in BOOLEAN :
          tasks' = [tasks EXCEPT ![i] =
                       IF listenOk THEN [@ EXCEPT !.pc = "port"]
                       ELSE [@ EXCEPT !.pc = "status", !.ch = gen, !.err = "listen"]]
    /\ UNCHANGED <<config, session, pc, cmdName, cmdData, resp, wrote, gen, backend, probe>>

\* the goroutine of SetActive reads the field conn.mode and blocks on the
\* channel it finds there
ActiveStart(i) ==
    /\ pc # "panic"
    /\ i \in 1..Len(tasks)
    /\ tasks[i].kind = "port"
    /\ tasks[i].pc = "start"
    /\ tasks' = [tasks EXCEPT ![i] = [@ EXCEPT !.pc = "mode", !.ch = gen]]
    /\ UNCHANGED <<config, session, pc, cmdName, cmdData, resp, wrote, gen, backend, probe>>

\* a channel conn.mode with a buffer: the send returns without a receiver
ModeBuffered(i) ==
    /\ pc = "mode"
    /\ i = 1
    /\ pc' = IF Upload THEN "status" ELSE "data"
    /\ UNCHANGED <<config, session, cmdName, cmdData, resp, wrote, transfer, probe>>

\* conn.mode <- v meets <-conn.mode.  For an upload the task goes on to dial
\* and to read the peer; for a download it waits for the payload.
\* a Receive that pulls the payload before it waits for the outcome
ModePayloadFirst(i) ==
    /\ pc = "mode"
    /\ i \in 1..Len(tasks)
    /\ tasks[i].pc = "mode"
    /\ tasks[i].ch = gen
    /\ pc' = "data"
    /\ tasks' = [tasks EXCEPT ![i] =
                    [@ EXCEPT !.pc = IF Upload THEN "io" ELSE "data",
                              !.mode = IF Upload THEN "up" ELSE "down", !.cmd = "cur"]]
    /\ UNCHANGED <<config, session, cmdName, cmdData, resp, wrote, gen, backend, probe>>

ModeRendezvous(i) ==
    /\ pc = "mode"
    /\ i \in 1..Len(tasks)
    /\ tasks[i].pc = "mode"
    /\ tasks[i].ch = gen
    /\ IF Upload
       THEN /\ pc' = "status"
            /\ tasks' = [tasks EXCEPT ![i] =
                            [@ EXCEPT !.pc = "io", !.mode = "up", !.cmd = "cur"]]
       ELSE /\ pc' = "data"
            /\ tasks' = [tasks EXCEPT ![i] =
                            [@ EXCEPT !.pc = "data", !.mode = "down", !.cmd = "cur"]]
    /\ UNCHANGED <<config, session, cmdName, cmdData, resp, wrote, gen, backend, probe>>

\* download: conn.data <- data meets <-conn.data; the task goes on to dial
\* and to write
SendData(i) ==
    /\ pc = "data"
    /\ ~Upload
    /\ i \in 1..Len(tasks)
    /\ tasks[i].pc = "data"
    /\ tasks[i].mode = "down"
    /\ tasks[i].ch = gen
    /\ pc' = "status"
    /\ tasks' = [tasks EXCEPT ![i] = [@ EXCEPT !.pc = "io"]]
    /\ UNCHANGED <<config, session, cmdName, cmdData, resp, wrote, gen, backend, probe>>

\* the task talks to the peer: an upload dials and reads the peer to its end
\* ("dial": net.Dial failed, "io": ioutil.ReadAll failed), a download dials
\* and writes the payload ("io": net.Dial or c.Write failed).  Then it reads
\* the field conn.status and blocks sending the outcome on that channel.
PeerIO(i) ==
    /\ pc # "panic"
    /\ i \in 1..Len(tasks)
    /\ tasks[i].pc = "io"
    /\ \E e \in IF tasks[i].mode = "up" THEN {"dial", "io", "nil"} ELSE {"io", "nil"} :
          tasks' = [tasks EXCEPT ![i] = [@ EXCEPT !.pc = "status", !.ch = gen, !.err = e]]
    /\ UNCHANGED <<config, session, pc, cmdName, cmdData, resp, wrote, gen, backend, probe>>

\* a task that has returned
Done(t) ==
    [kind |-> t.kind, pc |-> "done", ch |-> 0, mode |-> "none", err |-> "nil",
     cmd |-> "none"]

\* Receive or Send returns to its handler: the tasks that hold the direction
\* of that command now hold the direction of a command that has returned
Retire(ts) ==
    [i \in 1..Len(ts) |-> IF ts[i].cmd = "cur" THEN [ts[i] EXCEPT !.cmd = "old"] ELSE ts[i]]

\* what a task does after its send on conn.status: a successful upload hands
\* over the payload; an upload that dialled and failed to read returns through
\* its deferred conn.Close(); every other task returns
AfterStatus(t) ==
    IF t.mode = "up" /\ t.err = "nil" THEN [t EXCEPT !.pc = "data"]
    ELSE IF t.mode = "up" /\ t.err = "io" THEN [t EXCEPT !.pc = "close"]
    ELSE Done(t)

\* err := <-conn.status meets conn.status <- err
StatusRendezvous(i) ==
    /\ pc = "status"
    /\ i \in 1..Len(tasks)
    /\ tasks[i].pc = "status"
    /\ tasks[i].ch = gen
    /\ IF tasks[i].err # "nil"
       THEN /\ resp' = Append(resp, StatusTransferAbort)
            /\ pc' = "read"
            /\ tasks' = Retire([tasks EXCEPT ![i] = AfterStatus(tasks[i])])
       ELSE IF Upload
       THEN /\ resp' = resp
            /\ pc' = "data"
            /\ tasks' = [tasks EXCEPT ![i] = AfterStatus(tasks[i])]
       ELSE /\ resp' = Append(resp, StatusTransferDone)
            /\ pc' = "read"
            /\ tasks' = Retire([tasks EXCEPT ![i] = AfterStatus(tasks[i])])
    /\ UNCHANGED <<config, session, cmdName, cmdData, wrote, gen, backend, probe>>

\* upload: data := <-conn.data meets conn.data <- buffer; Receive responds
\* 226 and returns to handleCommandStoreFile, whose ioutil.WriteFile
\* succeeds or fails
ReceiveData(i) ==
    /\ pc = "data"
    /\ Upload
    /\ i \in 1..Len(tasks)
    /\ tasks[i].pc = "data"
    /\ tasks[i].mode = "up"
    /\ tasks[i].ch = gen
    /\ tasks' = Retire([tasks EXCEPT ![i] = [@ EXCEPT !.pc = "close"]])
    /\ wrote' = TRUE
    /\ \E writeOk \in BOOLEAN :
          resp' = IF writeOk THEN Append(resp, StatusTransferDone)
                  ELSE resp \o <<StatusTransferDone, StatusActionNotTaken>>
    /\ pc' = "read"
    /\ UNCHANGED <<config, session, cmdName, cmdData, gen, backend, probe>>

\* the deferred conn.Close() of an active upload closes the control
\* connection
TaskClose(i) ==
    /\ pc # "panic"
    /\ i \in 1..Len(tasks)
    /\ tasks[i].pc = "close"
    /\ tasks' = [tasks EXCEPT ![i] = Done(tasks[i])]
    /\ backend' = "closed"
    /\ UNCHANGED <<config, session, pc, cmdName, cmdData, resp, wrote, gen, probe>>

Next ==
    \/ ReadError
    \/ \E req \in Requests : HandleReject(req)
    \/ \E req \in Requests : handleCommandUser(req)
    \/ \E req \in Requests : handleCommandPassword(req)
    \/ BadLoginDelay
    \/ \E req \in Requests : handleCommandSystemType(req)
    \/ \E req \in Requests : handleCommandPrintDirectory(req)
    \/ \E req \in Requests : handleCommandChangeDirectory(req)
    \/ \E req \in Requests : handleCommandDataType(req)
    \/ \E req \in Requests : handleCommandModificationTime(req)
    \/ \E req \in Requests : handleCommandFileSize(req)
    \/ \E req \in Requests : handleCommandRetrieveFile(req)
    \/ \E req \in Requests : handleCommandStoreFile(req)
    \/ \E req \in Requests : Len(tasks) < MaxTasks /\ handleCommandPassiveMode(req)
    \/ GetPassivePort
    \/ \E req \in Requests : Len(tasks) < MaxTasks /\ handleCommandPort(req)
    \/ \E req \in Requests : handleCommandListRaw(req)
    \/ \E req \in Requests : handleCommandList(req)
    \/ \E req \in Requests : handleCommandQuit(req)
    \/ \E i \in 1..MaxTasks : PassiveListen(i)
    \/ \E i \in 1..MaxTasks : ActiveStart(i)
    \/ \E i \in 1..MaxTasks : ModeRendezvous(i)
    \/ \E i \in 1..MaxTasks : SendData(i)
    \/ \E i \in 1..MaxTasks : PeerIO(i)
    \/ \E i \in 1..MaxTasks : StatusRendezvous(i)
    \/ \E i \in 1..MaxTasks : ReceiveData(i)
    \/ \E i \in 1..MaxTasks : TaskClose(i)

Spec == Init /\ [][Next]_vars

(***************************************************************************)
(* The transfer protocol on its own: a session that has logged in under    *)
(* the default configuration and sends PASV, PORT, RETR and STOR only.     *)
(***************************************************************************)
TransferLines ==
    {Str("PASV"), <<"RETR", " ", "f">>, <<"STOR", " ", "f">>,
     <<"PORT", " ", "10", ",", "0", ",", "0", ",", "1", ",", "8", ",", "77">>}

TransferRequests == {Parse(line) : line \in TransferLines}

\* the session after USER alice, PASS
InitTransfer ==
    /\ config = "default"
    /\ User = Str("alice")
    /\ Dir = <<"/">>
    /\ TransferType = defaultTransferType
    /\ selectedUser = Str("alice")
    /\ keepAlive = TRUE
    /\ pc = "read"
    /\ cmdName = CommandPassword
    /\ cmdData = <<>>
    /\ resp = <<StatusAuthenticated>>
    /\ wrote = FALSE
    /\ gen = 0
    /\ tasks = <<>>
    /\ backend = "open"
    /\ probe = NoProbe

TransferNext(n) ==
    \/ \E req \in TransferRequests : handleCommandRetrieveFile(req)
    \/ \E req \in TransferRequests : handleCommandStoreFile(req)
    \/ \E req \in TransferRequests :
          Len(tasks) < n /\ handleCommandPassiveMode(req)
    \/ GetPassivePort
    \/ \E req \in TransferRequests :
          Len(tasks) < n /\ handleCommandPort(req)
    \/ \E i \in 1..n : PassiveListen(i)
    \/ \E i \in 1..n : ActiveStart(i)
    \/ \E i \in 1..n : ModeRendezvous(i)
    \/ \E i \in 1..n : SendData(i)
    \/ \E i \in 1..n : PeerIO(i)
    \/ \E i \in 1..n : StatusRendezvous(i)
    \/ \E i \in 1..n : ReceiveData(i)
    \/ \E i \in 1..n : TaskClose(i)

NextTransfer == TransferNext(MaxTransferTasks)

SpecTransfer == InitTransfer /\ [][NextTransfer]_vars

\* The same session where what runs without the peer does run: the timer of
\* GetPassivePort and the goroutines of the data tasks (the Go scheduler
\* runs every goroutine that can run).  The peer is free to send nothing.
TaskStep ==
    \E i \in 1..MaxFairTasks :
        \/ PassiveListen(i) \/ ActiveStart(i) \/ ModeRendezvous(i) \/ SendData(i)
        \/ PeerIO(i) \/ StatusRendezvous(i) \/ ReceiveData(i) \/ TaskClose(i)

NextFair == TransferNext(MaxFairTasks)

FairSpec ==
    InitTransfer /\ [][NextFair]_vars /\ WF_vars(GetPassivePort) /\ WF_vars(TaskStep)

(***************************************************************************)
(* Logging in under the default configuration: every name, the empty one   *)
(* of a USER without argument included, with every password, from every    *)
(* directory a CWD leads to.                                               *)
(***************************************************************************)
LoginLines ==
    Arg("USER", NameArgs) \cup {Str("USER")}
    \cup Arg("PASS", PasswordArgs) \cup {Str("PASS"), Str("PWD")}
    \cup Arg("CWD", {Str("a"), Str("..")})

LoginRequests == {Parse(line) : line \in LoginLines}

InitDefault == Init /\ config = "default"

NextDefault ==
    \/ \E req \in LoginRequests : HandleReject(req)
    \/ \E req \in LoginRequests : handleCommandUser(req)
    \/ \E req \in LoginRequests : handleCommandPassword(req)
    \/ \E req \in LoginRequests : handleCommandPrintDirectory(req)
    \/ \E req \in LoginRequests : handleCommandChangeDirectory(req)

SpecDefault == InitDefault /\ [][NextDefault]_vars

(***************************************************************************)
(* The path-taking commands on their own: a user of the file configuration *)
(* has logged in and sends CWD, MDTM, SIZE, RETR and STOR.                 *)
(***************************************************************************)
PathRequests ==
    LET args == DirArgs \cup FileArgs
                \cup {<<"/">>, <<"/", "h">>, <<"a", "/", "..">>, <<"..", "/", "..">>}
    IN  {Parse(<<verb, " ">> \o a) : verb \in {"CWD", "MDTM", "SIZE", "RETR", "STOR"},
                                     a \in args}

\* the session after USER alice, PASS s or USER bob, PASS
InitPaths ==
    /\ config = "yaml"
    /\ User \in {Str("alice"), Str("bob")}
    /\ Dir = HomeDir(FindUser(config, User))
    /\ TransferType = defaultTransferType
    /\ selectedUser = User
    /\ keepAlive = TRUE
    /\ pc = "read"
    /\ cmdName = CommandPassword
    /\ cmdData = <<>>
    /\ resp = <<StatusAuthenticated>>
    /\ wrote = FALSE
    /\ gen = 0
    /\ tasks = <<>>
    /\ backend = "open"
    /\ probe = NoProbe

NextPaths ==
    \/ \E req \in PathRequests : handleCommandChangeDirectory(req)
    \/ \E req \in PathRequests : handleCommandModificationTime(req)
    \/ \E req \in PathRequests : handleCommandFileSize(req)
    \/ \E req \in PathRequests : handleCommandRetrieveFile(req)
    \/ \E req \in PathRequests : handleCommandStoreFile(req)

SpecPaths == InitPaths /\ [][NextPaths]_vars

(***************************************************************************)
(* The same session on a control connection that the peer has reset after  *)
(* sending its commands: the write of the 230 response has failed, as      *)
(* every later write does (Respond returns the error, no caller looks at   *)
(* it); the lines the peer sent are in the buffer of conn.reader.          *)
(***************************************************************************)
InitSocket ==
    /\ config = "default"
    /\ User = Str("alice")
    /\ Dir = <<"/">>
    /\ TransferType = defaultTransferType
    /\ selectedUser = Str("alice")
    /\ keepAlive = TRUE
    /\ pc = "read"
    /\ cmdName = CommandPassword
    /\ cmdData = <<>>
    /\ resp = <<StatusAuthenticated>>
    /\ wrote = FALSE
    /\ gen = 0
    /\ tasks = <<>>
    /\ backend = "broken"
    /\ probe = NoProbe

NextSocket == ReadError \/ NextFair

SpecSocket == InitSocket /\ [][NextSocket]_vars

\* The logged-in session whose loop may return on a read error (the peer
\* went away, Handle closes the control connection) while the goroutines of
\* the data tasks and the timer of GetPassivePort keep running.
FairTeardown ==
    InitTransfer /\ [][NextSocket]_vars /\ WF_vars(GetPassivePort) /\ WF_vars(TaskStep)

(***************************************************************************)
(* The path resolver on its own: every current directory, every home and   *)
(* every argument up to the bounds.                                        *)
(***************************************************************************)
SeqsUpTo(S, n) == UNION {[1..k -> S] : k \in 0..n}

\* the canonical absolute paths of at most MaxDepth elements
ProbeDirs == {<<"/">> \o Join(e, "/") : e \in SeqsUpTo({Str("h"), Str("a"), Str("b")}, MaxDepth)}

\* the elements of an argument; the empty one gives "//" and a trailing "/"
ProbeElems == {<<>>, Str("."), Str(".."), Str("a"), Str("b"), Str("h"), Str("x..y")}

ProbeArgs ==
    {Join(e, "/") : e \in SeqsUpTo(ProbeElems, MaxArgLen)}
    \cup {<<"/">> \o Join(e, "/") : e \in SeqsUpTo(ProbeElems, MaxArgLen)}

InitResolve ==
    /\ config \in {"default", "yaml"}
    /\ User \in IF config = "yaml" THEN {Str("alice"), Str("bob")} ELSE {Str("alice")}
    /\ Dir \in ProbeDirs
    /\ TransferType = defaultTransferType
    /\ selectedUser = User
    /\ keepAlive = TRUE
    /\ pc = "read"
    /\ cmdName = <<>>
    /\ cmdData = <<>>
    /\ resp = <<>>
    /\ wrote = FALSE
    /\ gen = 0
    /\ tasks = <<>>
    /\ backend = "open"
    /\ probe = NoProbe

\* one call of GetRelativePath in the drawn session
Resolve(p2) ==
    /\ probe = NoProbe
    /\ probe' = [op |-> "GetRelativePath", arg |-> p2, out |-> GetRelativePath(p2)]
    /\ UNCHANGED <<config, session, pc, cmdName, cmdData, resp, wrote, transfer>>

NextResolve == \E p2 \in ProbeArgs : Resolve(p2)

SpecResolve == InitResolve /\ [][NextResolve]_vars

(***************************************************************************)
(* yamlUserEntry.Auth on its own: every entry (hash empty or the hash of a  *)
(* password, raw password empty or not) against every password.            *)
(***************************************************************************)
Passwords == SeqsUpTo({"s", "x"}, MaxPasswordLen)

Hashes == {<<>>} \cup {GenerateFromPassword(password) : password \in Passwords}

Entries ==
    {[kind |-> "yaml", Home |-> <<"/", "h", "/", "a">>, Hash |-> h, RawPassword |-> r,
      UserGroup |-> Str("guest")] : h \in Hashes, r \in Passwords}

InitAuth == Init /\ config = "yaml"

\* one call of user.Auth(password)
AuthProbe(user, password) ==
    /\ probe.op = "none"
    /\ probe' = [op |-> "Auth", arg |-> <<user, password>>,
                 out |-> [path |-> <<>>, ok |-> Auth(user, password)]]
    /\ UNCHANGED <<config, session, pc, cmdName, cmdData, resp, wrote, transfer>>

NextAuth == \E user \in Entries, password \in Passwords : AuthProbe(user, password)

SpecAuth == InitAuth /\ [][NextAuth]_vars

(***************************************************************************)
(* The permission predicates of a group of the file configuration on their *)
(* own: every group with at most MaxFlags flags a list, on two paths.      *)
(***************************************************************************)
MaxFlags == 2

\* the lists of the two flags the predicates know, and two lists with a flag
\* they do not know
FlagLists ==
    SeqsUpTo({"file", "dir"}, MaxFlags) \cup {<<"link">>, <<"link", "dir">>}

GroupEntries ==
    {[kind |-> "yaml", CreateFlags |-> c, HandleFlags |-> h, DeleteFlags |-> d] :
        c \in FlagLists, h \in FlagLists, d \in FlagLists}

\* the two paths a group is asked about
PermPaths == {<<<<"/">>, <<"/", "h", "/", "a", "/", "f">>>>}

Permissions(group, path) ==
    [CanCreateFile |-> CanCreateFile(group, path),
     CanCreateDir |-> CanCreateDir(group, path),
     CanEditFile |-> CanEditFile(group, path),
     CanListDir |-> CanListDir(group, path),
     CanDeleteFile |-> CanDeleteFile(group, path),
     CanDeleteDir |-> CanDeleteDir(group, path)]

InitPerm == Init /\ config = "yaml"

\* the six predicates of one group, asked for two paths
PermProbe(group, p1, p2) ==
    /\ probe.op = "none"
    /\ probe' = [op |-> "Can", arg |-> <<group, p1, p2>>,
                 out |-> <<Permissions(group, p1), Permissions(group, p2)>>]
    /\ UNCHANGED <<config, session, pc, cmdName, cmdData, resp, wrote, transfer>>

NextPerm == \E group \in GroupEntries, p \in PermPaths : PermProbe(group, p[1], p[2])

SpecPerm == InitPerm /\ [][NextPerm]_vars

(***************************************************************************)
(* ParseHost and GenerateHost on their own.  Here a string is the sequence *)
(* of its characters, so that the decimal conversions are computed.        *)
(***************************************************************************)
MaxPort == 40

DigitChars == <<"0", "1", "2", "3", "4", "5", "6", "7", "8", "9">>

\* strconv.Atoi of an unsigned decimal; the callers drop the error and keep
\* the 0 that comes with it
RECURSIVE Atoi(_)
Atoi(s) ==
    IF s = <<>> \/ \E i \in 1..Len(s) : \A d \in 1..10 : DigitChars[d] # s[i]
    THEN 0
    ELSE LET last == (CHOOSE d \in 1..10 : DigitChars[d] = s[Len(s)]) - 1
         IN  IF Len(s) = 1 THEN last
             ELSE Atoi(SubSeq(s, 1, Len(s) - 1)) * 10 + last

\* strconv.Itoa, and the verb %d of fmt.Sprintf, of a number that is not negative
RECURSIVE Itoa(_)
Itoa(n) ==
    IF n < 10 THEN <<DigitChars[n + 1]>>
    ELSE Itoa(n \div 10) \o <<DigitChars[(n % 10) + 1]>>

\* defined for six fields or more (see ParseHostPanics)
ParseHost(ports) ==
    LET tokens == Split(ports, ",")
        host == Join(SubSeq(tokens, 1, 4), ".")
        base1 == Atoi(tokens[5])
        base0 == Atoi(tokens[6])
        port == Itoa(base1 * 256 + base0)
    IN  host \o <<":">> \o port

\* a conversion that puts the low byte of the port first
GenerateHostLowFirst(hostport) ==
    LET tokens == Split(hostport, ":")
        ips == Split(tokens[1], ".")
        port == Atoi(tokens[2])
    IN  Join(ips, ",") \o <<",">> \o Itoa(port % 256) \o <<",">> \o Itoa(port \div 256)

GenerateHost(hostport) ==
    LET tokens == Split(hostport, ":")
        ips == Split(tokens[1], ".")
        port == Atoi(tokens[2])
    IN  Join(ips, ",") \o <<",">> \o Itoa(port \div 256) \o <<",">> \o Itoa(port % 256)

\* the bytes of the IPv4 addresses and the ports that are tried
Octets == {0, 1, 10, 255}

Ports == 0..MaxPort \cup {255, 256, 2121, 65535}

\* the address ip (four bytes) and the port, as net.Addr.String() prints them
HostPort(ip, port) ==
    Join([i \in 1..4 |-> Itoa(ip[i])], ".") \o <<":">> \o Itoa(port)

InitHost == Init /\ config = "default"

\* GenerateHost of an address, ParseHost of the result, GenerateHost of that
HostProbe(ip, port) ==
    /\ probe.op = "none"
    /\ LET ftp == GenerateHost(HostPort(ip, port))
           uri == ParseHost(ftp)
       IN  probe' = [op |-> "Host", arg |-> <<ip, port, HostPort(ip, port)>>,
                     out |-> [ftp |-> ftp, uri |-> uri, back |-> GenerateHost(uri)]]
    /\ UNCHANGED <<config, session, pc, cmdName, cmdData, resp, wrote, transfer>>

NextHost == \E ip \in [1..4 -> Octets], port \in Ports : HostProbe(ip, port)

SpecHost == InitHost /\ [][NextHost]_vars

(***************************************************************************)
(* The permission checks with a user whose group the file does not define: *)
(* carol names the group "staff".                                          *)
(***************************************************************************)
GroupRequests ==
    {Parse(line) : line \in Arg("USER", NameArgs \cup {Str("carol")})
                            \cup Arg("PASS", PasswordArgs)
                            \cup Arg("STOR", FileArgs)
                            \cup {Str("PWD"), Str("NLST"), Str("LIST")}}

NextGroups ==
    \/ \E req \in GroupRequests : HandleReject(req)
    \/ \E req \in GroupRequests : handleCommandUser(req)
    \/ \E req \in GroupRequests : handleCommandPassword(req)
    \/ BadLoginDelay
    \/ \E req \in GroupRequests : handleCommandPrintDirectory(req)
    \/ \E req \in GroupRequests : handleCommandStoreFile(req)
    \/ \E req \in GroupRequests : handleCommandListRaw(req)
    \/ \E req \in GroupRequests : handleCommandList(req)

SpecGroups == InitAuth /\ [][NextGroups]_vars

(***************************************************************************)
(* Two sessions of one server.  main accepts connections one after the     *)
(* other and starts a worker (go connHandler.Handle(conn)) for each; the   *)
(* variables are the Conn and HandlerState of the worker that runs, probe  *)
(* keeps the index of the factory, the ID of that worker and the Conn and  *)
(* HandlerState of the worker that waits.                                  *)
(***************************************************************************)
MaxSessions == 4

\* the Conn and the HandlerState of the worker that runs
Worker ==
    [User |-> User, Dir |-> Dir, TransferType |-> TransferType,
     selectedUser |-> selectedUser, keepAlive |-> keepAlive, pc |-> pc,
     cmdName |-> cmdName, cmdData |-> cmdData, resp |-> resp, wrote |-> wrote,
     gen |-> gen, tasks |-> tasks, backend |-> backend]

\* the Conn that Accept returns and the HandlerState Handle makes for it,
\* after the greeting
AcceptedConn ==
    [User |-> <<>>, Dir |-> <<"/", "tmp">>, TransferType |-> defaultTransferType,
     selectedUser |-> <<>>, keepAlive |-> TRUE, pc |-> "read",
     cmdName |-> <<>>, cmdData |-> <<>>, resp |-> <<StatusServiceReady>>,
     wrote |-> FALSE, gen |-> 0, tasks |-> <<>>, backend |-> "open"]

\* main has accepted two connections: the IDs 0 and 1, index 2
InitSessions ==
    /\ config = "yaml"
    /\ User = <<>>
    /\ Dir = <<"/", "tmp">>
    /\ TransferType = defaultTransferType
    /\ selectedUser = <<>>
    /\ keepAlive = TRUE
    /\ pc = "read"
    /\ cmdName = <<>>
    /\ cmdData = <<>>
    /\ resp = <<StatusServiceReady>>
    /\ wrote = FALSE
    /\ gen = 0
    /\ tasks = <<>>
    /\ backend = "open"
    /\ probe = [op |-> "sessions", arg |-> [index |-> 2, ID |-> 0],
                out |-> [ID |-> 1, conn |-> AcceptedConn]]

\* the scheduler lets the other worker run
Switch ==
    /\ probe.op = "sessions"
    /\ LET next == probe.out.conn
       IN  /\ User' = next.User
           /\ Dir' = next.Dir
           /\ TransferType' = next.TransferType
           /\ selectedUser' = next.selectedUser
           /\ keepAlive' = next.keepAlive
           /\ pc' = next.pc
           /\ cmdName' = next.cmdName
           /\ cmdData' = next.cmdData
           /\ resp' = next.resp
           /\ wrote' = next.wrote
           /\ gen' = next.gen
           /\ tasks' = next.tasks
           /\ backend' = next.backend
    /\ probe' = [probe EXCEPT !.arg.ID = probe.out.ID,
                              !.out = [ID |-> probe.arg.ID, conn |-> Worker]]
    /\ config' = config

\* a factory that hands out its index without counting on
AcceptSameIndex ==
    /\ probe.op = "sessions"
    /\ probe.out.conn.pc = "closed"
    /\ probe.arg.index < MaxSessions
    /\ probe' = [probe EXCEPT !.out = [ID |-> probe.arg.index, conn |-> AcceptedConn]]
    /\ UNCHANGED <<config, session, pc, cmdName, cmdData, resp, wrote, transfer>>

\* the worker that waits has returned; main accepts the next connection:
\* its ID is the index of the factory, which then counts on
Accept ==
    /\ probe.op = "sessions"
    /\ probe.out.conn.pc = "closed"
    /\ probe.arg.index < MaxSessions
    /\ probe' = [probe EXCEPT !.arg.index = @ + 1,
                              !.out = [ID |-> probe.arg.index, conn |-> AcceptedConn]]
    /\ UNCHANGED <<config, session, pc, cmdName, cmdData, resp, wrote, transfer>>

SessionRequests ==
    {Parse(line) : line \in {<<"USER", " ", "alice">>, <<"USER", " ", "bob">>,
                             <<"PASS", " ", "s">>, <<"PASS", " ", "x">>,
                             <<"TYPE", " ", "I">>,
                             <<"PORT", " ", "10", ",", "0", ",", "0", ",", "1", ",", "8", ",", "77">>}}

NextSessions ==
    \/ Switch
    \/ Accept
    \/ ReadError
    \/ \E req \in SessionRequests : HandleReject(req)
    \/ \E req \in SessionRequests : handleCommandUser(req)
    \/ \E req \in SessionRequests : handleCommandPassword(req)
    \/ BadLoginDelay
    \/ \E req \in SessionRequests : handleCommandDataType(req)
    \/ \E req \in SessionRequests : tasks = <<>> /\ handleCommandPort(req)

SpecSessions == InitSessions /\ [][NextSessions]_vars

(***************************************************************************)
(* Vocabulary of the properties                                            *)
(***************************************************************************)
\* a step in which the control loop reads a command and acts on it (a step
\* of a data task leaves the number of tasks alone and changes one of them)
CommandStep ==
    /\ pc = "read"
    /\ pc' # "closed"
    /\ tasks' = tasks \/ Len(tasks') = Len(tasks) + 1

\* some command has been read since the greeting
CommandRead == resp # <<StatusServiceReady>>

\* the home directory the configuration gives a user
HomeOf(name) == IF config = "default" THEN <<"/">> ELSE Users[name].Home

\* p is "/" or /name/name/...: no empty, "." or ".." element
Canonical(p) ==
    \/ p = <<"/">>
    \/ /\ Len(p) > 0
       /\ Len(p) % 2 = 0
       /\ \A i \in 1..Len(p) :
             IF i % 2 = 1 THEN p[i] = "/" ELSE p[i] \notin {"/", ".", ".."}

\* the canonical path p is the directory h or lies below it
Under(p, h) ==
    \/ h = <<"/">>
    \/ p = h
    \/ /\ Len(p) > Len(h)
       /\ SubSeq(p, 1, Len(h)) = h
       /\ p[Len(h) + 1] = "/"

\* the fifteen verbs of the command table
Verbs ==
    {Str(v) : v \in {"USER", "PASS", "SYST", "PWD", "CWD", "TYPE", "MDTM", "SIZE",
                      "RETR", "STOR", "PASV", "PORT", "NLST", "LIST", "QUIT"}}

\* the password that logs a user of the YAML file in (bob and carol have none)
PasswordFits(name, password) ==
    \/ config = "default"
    \/ name \in {Str("bob"), Str("carol")}
    \/ name = Str("alice") /\ password = Str("s")

\* the group of the user has "file" among its create permissions
MayCreateFile(name) ==
    \/ config = "default"
    \/ name = Str("bob")

(***************************************************************************)
(* C1..C10                                                                 *)
(***************************************************************************)
\* C1: a command read while no user is authenticated, with a verb other than
\* USER and PASS, gets the single response 332; no handler runs (the loop is
\* back at reading, no transfer started, no file written) and the user, the
\* pending name, the directory, the transfer type and the channels stay.
C1_LoginGate ==
    [][(CommandStep /\ User = <<>>
          /\ cmdName' # CommandUser /\ cmdName' # CommandPassword)
       => /\ resp' = <<StatusNeedAccount>>
          /\ pc' = "read"
          /\ wrote' = FALSE
          /\ UNCHANGED <<User, selectedUser, Dir, TransferType, keepAlive, gen, tasks,
                         backend>>]_vars

\* a transfer command was turned away at the gate although a name was pending
C1_Witness ==
    /\ User = <<>>
    /\ selectedUser # <<>>
    /\ cmdName = CommandStoreFile
    /\ resp = <<StatusNeedAccount>>

\* C2: the user turns from empty to a name only in a PASS step whose password
\* fits the pending name, and it turns into that name; the pending name is
\* set only by a USER step that was answered 331 and names a configured user.
C2_LoginOnlyByPass ==
    [][/\ (User = <<>> /\ User' # <<>>)
          => /\ CommandStep
             /\ cmdName' = CommandPassword
             /\ resp' = <<StatusAuthenticated>>
             /\ selectedUser # <<>>
             /\ User' = selectedUser
             /\ PasswordFits(selectedUser, cmdData')
       /\ (selectedUser' # selectedUser)
          => /\ CommandStep
             /\ cmdName' = CommandUser
             /\ resp' = <<StatusNeedPassword>>
             /\ selectedUser' = cmdData'
             /\ (config = "yaml" => cmdData' \in DOMAIN Users)]_vars

\* alice has logged in with her password
C2_Witness ==
    /\ User = Str("alice")
    /\ cmdName = CommandPassword
    /\ cmdData = Str("s")
    /\ resp = <<StatusAuthenticated>>

\* C3 (as claimed): a STOR of a user whose group may not create files is
\* answered 450 only: no 125, no transfer, no file written.
C3_StorDenied ==
    (CommandRead /\ cmdName = CommandStoreFile /\ User # <<>> /\ ~MayCreateFile(User))
    => /\ resp = <<StatusActionNotTaken>>
       /\ pc \in {"read", "closed"}
       /\ wrote = FALSE

C5_DirUnderHome ==
    User # <<>> => (Canonical(Dir) /\ Under(Dir, HomeOf(User)))

\* bob logged in after alice had changed into a directory of hers, and has
\* changed directory himself
C5_Witness ==
    /\ config = "yaml"
    /\ User = Str("bob")
    /\ cmdName = CommandChangeDirectory
    /\ resp = <<StatusWorkingDirectory>>
    /\ Dir = <<"/", "h", "/", "b", "/", "a">>

\* C6 (as claimed): once a QUIT of an authenticated session is handled, the
\* loop has ended and the control connection is closed.
C6_QuitEndsSession ==
    (CommandRead /\ cmdName = CommandQuit /\ User # <<>>)
    => (pc = "closed" /\ backend = "closed")

\* C7 (as claimed): a QUIT of a session without a user gets the closing
\* response and ends the session.
C7_QuitWithoutLogin ==
    (CommandRead /\ cmdName = CommandQuit /\ User = <<>>)
    => (resp = <<StatusOK>> /\ pc = "closed")

\* C8 (as claimed): a line with an empty verb gets 500 and the loop goes on.
C8_EmptyVerbSyntaxError ==
    (CommandRead /\ cmdName = <<>>)
    => (resp = <<StatusSyntaxError>> /\ pc \in {"read", "closed"})

\* C9: on an authenticated session a verb outside the command table gets the
\* single response 502, changes nothing of the session and the loop goes on.
C9_UnknownVerb ==
    [][(CommandStep /\ User # <<>> /\ cmdName' \notin Verbs)
       => /\ resp' = <<StatusNotImplemented>>
          /\ pc' = "read"
          /\ wrote' = FALSE
          /\ UNCHANGED <<User, selectedUser, Dir, TransferType, keepAlive, gen, tasks,
                         backend>>]_vars

\* an unknown verb was refused on an authenticated session
C9_Witness ==
    /\ User # <<>>
    /\ cmdName = Str("NOOP")
    /\ resp = <<StatusNotImplemented>>

\* C10 (as claimed): after a USER that was answered 530 no name is pending.
C10_UnknownUserClearsPending ==
    (cmdName = CommandUser /\ resp = <<StatusNotLoggedIn>>) => selectedUser = <<>>

(***************************************************************************)
(* C11..C20                                                                *)
(***************************************************************************)
\* C11 (as claimed): a PASS read while no name is pending is not answered 230
\* and leaves the user and the current directory alone, under either
\* configuration.
C11_PassNeedsPendingName ==
    [][(CommandStep /\ selectedUser = <<>> /\ cmdName' = CommandPassword)
       => /\ resp' # <<StatusAuthenticated>>
          /\ User' = User
          /\ Dir' = Dir]_vars

\* C12 (as claimed): after a USER or PASS that was answered 530, in whatever
\* state, the next command other than USER and PASS is answered 332.
C12_FailureLeavesUnauthenticated ==
    [][(CommandStep /\ cmdName \in {CommandUser, CommandPassword}
          /\ resp = <<StatusNotLoggedIn>>
          /\ cmdName' \notin {CommandUser, CommandPassword})
       => resp' = <<StatusNeedAccount>>]_vars

\* C13 (as claimed): every 530 is written by the step that ends the
\* bad-login delay.
C13_DelayBeforeFailure ==
    [][(resp' # resp /\ resp' = <<StatusNotLoggedIn>>) => pc = "sleep"]_vars

\* C14: with no PASV and no PORT since the accept, a command that enters
\* Send or Receive has responded 125 only, and the loop, blocked on
\* conn.mode, takes no further step: no 226, no 426, no next command.
C14_BlocksWithoutDataTask ==
    /\ [][(pc = "read" /\ pc' = "mode" /\ tasks = <<>>)
            => (tasks' = <<>> /\ resp' = <<StatusTransferReady>>)]_vars
    /\ [][~(pc = "mode" /\ tasks = <<>>)]_vars

\* NLST of a session without a data task has been answered 125 and waits
C14_Witness ==
    /\ tasks = <<>>
    /\ pc = "mode"
    /\ cmdName = CommandListRaw
    /\ resp = <<StatusTransferReady>>

\* C15 (as claimed): when the timer of PASV ends while the passive task has
\* listened with success and is reporting its port, the answer is 227.
C15_PasvReportsPort ==
    [][(pc = "port" /\ pc' = "read" /\ tasks[Len(tasks)].pc = "port")
       => resp' = <<StatusPassiveMode>>]_vars

Responds(code) == Len(resp') > Len(resp) /\ resp'[Len(resp) + 1] = code

\* the step is a rendezvous of the control loop with task i
Meets(i) == i \in 1..Len(tasks) /\ tasks'[i].pc # tasks[i].pc

\* C17 (as claimed): 226 and 426 follow a single 125; 426 is written when
\* the task that took the direction of this command delivered an error, 226
\* when it delivered success, after it had written the payload to the peer
\* (download) or read the peer to its end (upload).
C17_TransferResponses ==
    [][/\ Responds(StatusTransferDone)
          => /\ resp = <<StatusTransferReady>>
             /\ \E i \in 1..Len(tasks) :
                   /\ Meets(i)
                   /\ tasks[i].cmd = "cur"
                   /\ tasks[i].err = "nil"
                   /\ tasks[i].pc = IF Upload THEN "data" ELSE "status"
       /\ Responds(StatusTransferAbort)
          => /\ resp = <<StatusTransferReady>>
             /\ \E i \in 1..Len(tasks) :
                   Meets(i) /\ tasks[i].cmd = "cur" /\ tasks[i].err # "nil"]_vars

\* C18 (as claimed): the payload the control loop hands over in Send goes to
\* the task that took the direction of this command, and the payload it
\* takes in Receive, which STOR writes to the file, comes from the task
\* that read the peer for this command.
C18_PayloadPreserved ==
    [][/\ (~Upload /\ pc = "data" /\ pc' = "status")
          => \E i \in 1..Len(tasks) :
                Meets(i) /\ tasks[i].cmd = "cur" /\ tasks[i].mode = "down"
       /\ (Upload /\ pc = "data" /\ wrote')
          => \E i \in 1..Len(tasks) :
                Meets(i) /\ tasks[i].cmd = "cur" /\ tasks[i].mode = "up"]_vars

\* C19 (as claimed): when a data task holds an error for the completion
\* signal and a transfer command is under way, the command comes back to the
\* loop with 426; and no task that met an error closes the control
\* connection.
C19_ErrorsSurface ==
    /\ \A i \in 1..MaxFairTasks :
          (/\ i \in 1..Len(tasks)
           /\ tasks[i].pc = "status"
           /\ tasks[i].err # "nil"
           /\ pc \in {"mode", "data", "status"})
          ~> (pc = "read" /\ resp = <<StatusTransferReady, StatusTransferAbort>>)
    /\ [][(backend' # backend)
            => \A i \in 1..Len(tasks) : Meets(i) => tasks[i].err = "nil"]_vars

\* C20 (as claimed): an entry with an empty hash accepts every password; an
\* entry with the hash of s accepts s and nothing else.
C20_AuthByHash ==
    (probe.op = "Auth")
    => LET user == probe.arg[1]
           password == probe.arg[2]
       IN  /\ user.Hash = <<>> => probe.out.ok
           /\ \A s \in Passwords :
                 user.Hash = GenerateFromPassword(s) => (probe.out.ok <=> password = s)

\* C20 (amended): an entry with neither hash nor raw password accepts every
\* password; an entry with an empty hash and a raw password accepts none;
\* an entry with the hash of s accepts s and nothing else.
C20_AuthByHashAndRaw ==
    (probe.op = "Auth")
    => LET user == probe.arg[1]
           password == probe.arg[2]
       IN  /\ (user.Hash = <<>> /\ user.RawPassword = <<>>) => probe.out.ok
           /\ (user.Hash = <<>> /\ user.RawPassword # <<>>) => ~probe.out.ok
           /\ \A s \in Passwords :
                 user.Hash = GenerateFromPassword(s) => (probe.out.ok <=> password = s)

\* an entry with neither hash nor raw password has accepted a password
C20_Witness ==
    /\ probe.op = "Auth"
    /\ probe.arg[1].Hash = <<>>
    /\ probe.arg[1].RawPassword = <<>>
    /\ probe.arg[2] = <<"x", "s">>
    /\ probe.out.ok

(***************************************************************************)
(* C21..C30                                                                *)
(***************************************************************************)
\* every permission predicate of the group g is true for the path
AllPermitted(g, path) ==
    /\ CanCreateFile(g, path) /\ CanCreateDir(g, path)
    /\ CanEditFile(g, path) /\ CanListDir(g, path)
    /\ CanDeleteFile(g, path) /\ CanDeleteDir(g, path)

FlagSet(flags) == {flags[i] : i \in DOMAIN flags}

\* C22: the predicates of a group of the file configuration are membership
\* tests on its three flag sets (create, handle, delete; "file" or "dir") and
\* give the same answer for every path.
C22_PermissionsAreMembership ==
    probe.op = "Can"
    => LET g == probe.arg[1]
           m == [CanCreateFile |-> "file" \in FlagSet(g.CreateFlags),
                 CanCreateDir |-> "dir" \in FlagSet(g.CreateFlags),
                 CanEditFile |-> "file" \in FlagSet(g.HandleFlags),
                 CanListDir |-> "dir" \in FlagSet(g.HandleFlags),
                 CanDeleteFile |-> "file" \in FlagSet(g.DeleteFlags),
                 CanDeleteDir |-> "dir" \in FlagSet(g.DeleteFlags)]
       IN probe.out[1] = m /\ probe.out[2] = m

\* a group whose create list names "dir" after another flag may create
\* directories but not files, whatever the path
C22_Witness ==
    /\ probe.op = "Can"
    /\ probe.arg[1].CreateFlags = <<"link", "dir">>
    /\ probe.arg[2] # probe.arg[3]
    /\ probe.out[1].CanCreateDir /\ ~probe.out[1].CanCreateFile
    /\ probe.out[2].CanCreateDir /\ ~probe.out[2].CanCreateFile

Recognized(tt) ==
    /\ Len(tt) \in {1, 2}
    /\ \A i \in 1..Len(tt) : tt[i] \in {"A", "E", "I", "L", "N", "T", "C"}

\* C24: a TYPE command of an authenticated session is answered 200 and its
\* code stored when the code is recognized, and otherwise (the empty
\* argument included) answered 501 with the transfer type unchanged; either
\* way the loop reads the next command.
C24_TypeRejectsUnknown ==
    [][(CommandStep /\ User # <<>> /\ cmdName' = CommandDataType)
       => /\ pc' = "read"
          /\ IF Recognized(cmdData')
             THEN resp' = <<StatusOK>> /\ TransferType' = cmdData'
             ELSE resp' = <<StatusSyntaxParamError>> /\ TransferType' = TransferType]_vars

\* the verbs whose argument is a path
PathVerbs ==
    {CommandChangeDirectory, CommandModificationTime, CommandFileSize,
     CommandRetrieveFile, CommandStoreFile}

\* the absolute path the argument p2 names from the current directory
Named(p2) == Abs(IF IsAbs(p2) THEN p2 ELSE filepathJoin(Dir, p2))

\* C25: a path-taking command (CWD, MDTM, SIZE, RETR, STOR) whose argument
\* names a path outside the home directory of the user is answered with the
\* single response 450; the session state and the data tasks are unchanged,
\* no transfer starts and no file is written.
C25_ResolutionFailureRefused ==
    [][(CommandStep /\ User # <<>> /\ cmdName' \in PathVerbs
          /\ ~Under(Named(cmdData'), HomeOf(User)))
       => /\ pc' = "read"
          /\ resp' = <<StatusActionNotTaken>>
          /\ wrote' = FALSE
          /\ UNCHANGED <<session, transfer>>]_vars

\* bob, whose group may create files, is refused a STOR of ../f in his home
C25_Witness ==
    /\ User = Str("bob")
    /\ Dir = HomeOf(User)
    /\ cmdName = CommandStoreFile
    /\ cmdData = <<"..", "/", "f">>
    /\ selectedUser = User
    /\ resp = <<StatusActionNotTaken>>
    /\ pc = "read"

\* C26: a PORT command of an authenticated session, whatever its argument
\* (six decimal fields or fewer), is answered on the control connection and
\* the loop reads the next command: the handler never ends the server.
C26_MalformedPortRecovered ==
    [][(CommandStep /\ User # <<>> /\ cmdName' = CommandPort)
       => (pc' = "read" /\ resp' # <<>>)]_vars

\* C27: once a read of the control connection has failed (the loop has
\* returned) or a write of a response has failed (the connection is
\* broken), no command is handled, no data task is spawned, no transfer
\* starts, and neither the session state nor a file changes; the loop can
\* only return.
C27_SocketFailureFatal ==
    [][(pc = "closed" \/ backend = "broken")
       => /\ ~CommandStep
          /\ pc' \in {pc, "closed"}
          /\ Len(tasks') = Len(tasks)
          /\ UNCHANGED <<session, gen, wrote>>]_vars

\* a step in which the control loop, inside Receive or Send, meets a data
\* task on one of the three channels
Rendezvous == pc \in {"mode", "data", "status"} /\ pc' # pc

\* C28: the direction, the payload and the completion signal of a transfer
\* command are exchanged with the task of the most recent PASV or PORT only,
\* never with a task that an earlier PASV or PORT spawned.
C28_OnlyLatestTaskMeets ==
    [][Rendezvous
       => \A i \in 1..Len(tasks) : tasks'[i] # tasks[i] => i = Len(tasks)]_vars

\* the data tasks that wait at the channel k of the current PASV or PORT
WaitingAt(k) == {i \in 1..Len(tasks) : tasks[i].pc = k /\ tasks[i].ch = gen}

\* C29: on the three channels of the current PASV or PORT at most one data
\* task receives the direction, at most one takes part in the payload
\* handoff and at most one sends a completion signal, so that none of the
\* three is used twice for the transfer that follows.
C29_OneSignalEach ==
    \A k \in {"mode", "data", "status"} : Cardinality(WaitingAt(k)) <= 1

\* C30: the control connection changes only when the control loop returns,
\* never in a step of a data task; so after a transfer the loop is at its
\* read with the connection open.
C30_TaskLeavesControlAlone ==
    [][(backend' # backend) => (tasks' = tasks /\ pc' = "closed")]_vars

(***************************************************************************)
(* C31..C40                                                                *)
(***************************************************************************)
\* C31: once the loop has returned and closed the control connection, every
\* data task of the session comes to its end.
C31_TasksEndAfterClose ==
    \A i \in 1..MaxFairTasks :
        (pc = "closed" /\ i \in 1..Len(tasks))
        ~> (i \in 1..Len(tasks) /\ tasks[i].pc = "done")

\* the data tasks that have taken the direction of a transfer command and
\* still have the payload to move or the outcome to deliver
Transferring ==
    {i \in 1..Len(tasks) : tasks[i].cmd # "none" /\ tasks[i].pc \in {"io", "data", "status"}}

\* C32: a command is read only when the handler of the one before has
\* returned; the 226 or 426 of a transfer is written before that; and at
\* no time is more than one transfer under way, in the loop or in the tasks.
C32_OneCommandAtATime ==
    /\ [][(cmdName' # cmdName \/ cmdData' # cmdData \/ Len(resp') < Len(resp))
            => pc = "read"]_vars
    /\ [][(pc \in {"mode", "data", "status"} /\ pc' = "read")
            => (Responds(StatusTransferDone) \/ Responds(StatusTransferAbort))]_vars
    /\ [](Cardinality(Transferring) <= 1)

C34_UploadOrder ==
    [][Upload
       => /\ (pc = "mode" /\ pc' # pc) => (pc' = "status" /\ ~wrote')
          /\ (pc = "status" /\ pc' # pc)
                => /\ ~wrote'
                   /\ \E i \in 1..Len(tasks) :
                         /\ Meets(i) /\ tasks[i].pc = "status"
                         /\ IF tasks[i].err # "nil"
                            THEN Responds(StatusTransferAbort) /\ pc' = "read"
                            ELSE resp' = resp /\ pc' = "data"
          /\ (wrote' /\ ~wrote)
                => /\ pc = "data"
                   /\ Responds(StatusTransferDone)
                   /\ \E i \in 1..Len(tasks) :
                         Meets(i) /\ tasks[i].pc = "data" /\ tasks[i].mode = "up"]_vars

\* an upload has ended with 226 and the file written, after a PORT whose
\* task handed over the payload
C34_Witness ==
    /\ Upload
    /\ pc = "read"
    /\ resp = <<StatusTransferReady, StatusTransferDone>>
    /\ wrote
    /\ Len(tasks) = 1
    /\ tasks[1].kind = "port"

\* C35: the transfer type of the session is always a code of two letters of
\* the transfer-type table.
C35_TransferTypeTwoLetters ==
    /\ Len(TransferType) = 2
    /\ \A i \in 1..Len(TransferType) :
          TransferType[i] \in {"A", "E", "I", "L", "N", "T", "C"}

\* the verbs whose handler asks the group of a user for a permission
PermissionVerbs ==
    {CommandPrintDirectory, CommandStoreFile, CommandListRaw, CommandList}

\* C36: when the user a permission check looks up, or the group that user
\* names, is not found, PWD, STOR, NLST and LIST are answered 450 and the
\* loop reads the next command.
C36_AbsentGroupRefused ==
    [][(/\ CommandStep
        /\ User # <<>>
        /\ cmdName' \in PermissionVerbs
        /\ LET user == FindUser(config, selectedUser)
           IN  user.kind = "nil" \/ Group(user).kind = "nil")
       => (pc' = "read" /\ resp' = <<StatusActionNotTaken>>)]_vars

\* C37: while a user is authenticated, the pending name, which the
\* permission checks of PWD, STOR, NLST and LIST look up, is the name of
\* that user.
C37_PendingIsAuthenticated ==
    User # <<>> => selectedUser = User

\* the task of the most recent PASV or PORT has taken the direction of a
\* transfer command that has returned (with 226 or 426)
LatestHasServed ==
    /\ tasks # <<>>
    /\ LET t == tasks[Len(tasks)]
       IN  t.cmd = "old" \/ (t.kind = "port" /\ t.pc \in {"close", "done"})

\* C38: a transfer command that follows a completed transfer without a
\* PASV or PORT in between has sent 125 and waits with its direction for
\* ever.
C38_SecondTransferBlocks ==
    [][(pc = "mode" /\ LatestHasServed)
       => (pc' = "mode" /\ resp' = <<StatusTransferReady>>)]_vars

\* C39: the responses of a STOR hold at most one final response (any code
\* but the preliminary 125), and 450 never follows 226.
C39_OneFinalResponse ==
    Upload
        => /\ Cardinality({k \in 1..Len(resp) :
                              resp[k] # StatusTransferReady}) <= 1
           /\ \A k \in 1..Len(resp) - 1 :
                  ~(resp[k] = StatusTransferDone
                    /\ resp[k + 1] = StatusActionNotTaken)

\* C40: GetRelativePath returns ok exactly for the arguments whose canonical
\* absolute path lies under the home directory of the user, whatever the
\* names in the path are, and then returns that path.
C40_ResolutionExact ==
    probe.op = "GetRelativePath"
        => /\ probe.out.ok <=> Under(Named(probe.arg), HomeOf(User))
           /\ probe.out.ok => probe.out.path = Named(probe.arg)

====
